---- MODULE Spec2Model ----
(***************************************************************************)
(* Model of the Home component of src/app/page.tsx: file validation, the   *)
(* preview object-URL lifecycle, and the asynchronous handleSubmit with    *)
(* its progress interval, its two await points and its delayed reset.      *)
(*                                                                         *)
(* React state is the four useState cells.  Every handler runs to          *)
(* completion and the component re-renders before the next event, so a     *)
(* handler reads the current state; the only stale reads are the values    *)
(* captured by a handleSubmit call that is suspended at an await, and by   *)
(* its interval callback.  Those captured values live in subs.             *)
(* Time is abstracted: an interval may tick, and a timeout may fire, at    *)
(* any moment at which it is armed.                                        *)
(***************************************************************************)
EXTENDS Integers, Sequences, FiniteSets, TLC

\* ---------------------------------------------------------------- bounds
MaxSubs == 2

\* ---------------------------------------------------------- constants
Null == 0
Cleared == -1
MAX_FILE_SIZE == 5 * 1024 * 1024
ACCEPTED_IMAGE_TYPES == {"image/jpeg", "image/png", "image/gif"}
PROGRESS_STEP == 5
PROGRESS_CEILING == 90
PROGRESS_COMPLETE == 100

\* ------------------------------------------------------- candidate files
\* File descriptors the user can offer; 0 (Null) stands for "no file".
Files == 1..5

FileType(f) ==
    CASE f = 1 -> "image/jpeg"
      [] f = 2 -> "image/png"
      [] f = 3 -> "image/gif"
      [] f = 4 -> "image/bmp"
      [] OTHER -> "image/bmp"

FileSize(f) ==
    CASE f = 1 -> MAX_FILE_SIZE
      [] f = 2 -> 1024
      [] f = 3 -> MAX_FILE_SIZE + 1
      [] f = 4 -> 1024
      [] OTHER -> MAX_FILE_SIZE + 1

\* Response bodies the prediction service can send with a success status.
\* of is the file the request carried (the service answers about that file).
Labels == {"No tumor detected", "Glioma detected"}

\* The marker of the Alert.
NoTumorMarker == "No tumor"

\* The characters of the strings that are searched.
Chars(str) ==
    CASE str = "No tumor detected" ->
           <<"N", "o", " ", "t", "u", "m", "o", "r", " ",
             "d", "e", "t", "e", "c", "t", "e", "d">>
      [] str = "Glioma detected" ->
           <<"G", "l", "i", "o", "m", "a", " ",
             "d", "e", "t", "e", "c", "t", "e", "d">>
      [] str = "No tumor" ->
           <<"N", "o", " ", "t", "u", "m", "o", "r">>

\* String.prototype.includes.
includes(str, search) ==
    \E k \in 0..(Len(Chars(str)) - Len(Chars(search))) :
        SubSeq(Chars(str), k + 1, k + Len(Chars(search))) = Chars(search)

Payloads(f) ==
    [success : BOOLEAN, prediction : Labels, message : {"ok"}, of : {f}]

\* message of an error body; "" stands for a body without one.
ErrorMessages == {"", "server overloaded"}

VARIABLES
    selectedFile,      \* useState<File | null>: Null or a file
    preview,           \* useState<string | null>: Null or an object URL
    predictionResult,  \* useState<PredictionResponse | null>: <<>> or <<data>>
    uploadStatus,      \* useState<UploadStatus>: [isLoading, progress]
    liveURLs,          \* object URLs created and not yet revoked
    subs,              \* the handleSubmit calls made so far, in order
    toasts,            \* the notifications raised by the last step
    lastEvent          \* the last event or continuation that ran

vars == <<selectedFile, preview, predictionResult, uploadStatus,
          liveURLs, subs, toasts, lastEvent>>

\* The state the component itself holds and shows.
view == <<selectedFile, preview, predictionResult, uploadStatus>>

Min(a, b) == IF a < b THEN a ELSE b

Event(op, i) == [op |-> op, sub |-> i]

\* A call of handleFileSelection, with the file it is given.
FileEvent(file) == [op |-> "select", sub |-> 0, file |-> file]

Toast(title, description, variant) ==
    [title |-> title, description |-> description, variant |-> variant]

Init ==
    /\ selectedFile = Null
    /\ preview = Null
    /\ predictionResult = <<>>
    /\ uploadStatus = [isLoading |-> FALSE, progress |-> 0]
    /\ liveURLs = {}
    /\ subs = <<>>
    /\ toasts = <<>>
    /\ lastEvent = Event("mount", 0)

\* ------------------------------------------------------------ validation
\* validateFile comparing the size with >= instead of >.
validateFile_SizeInclusive(file) ==
    IF file = Null
      THEN [isValid |-> FALSE, error |-> "Please select a file"]
    ELSE IF FileType(file) \notin ACCEPTED_IMAGE_TYPES
      THEN [isValid |-> FALSE,
            error |-> "Please upload a valid image file (JPEG, PNG, or GIF)"]
    ELSE IF FileSize(file) >= MAX_FILE_SIZE
      THEN [isValid |-> FALSE, error |-> "File size must be less than 5MB"]
    ELSE [isValid |-> TRUE, error |-> ""]

validateFile(file) ==
    IF file = Null
      THEN [isValid |-> FALSE, error |-> "Please select a file"]
    ELSE IF FileType(file) \notin ACCEPTED_IMAGE_TYPES
      THEN [isValid |-> FALSE,
            error |-> "Please upload a valid image file (JPEG, PNG, or GIF)"]
    ELSE IF FileSize(file) > MAX_FILE_SIZE
      THEN [isValid |-> FALSE, error |-> "File size must be less than 5MB"]
    ELSE [isValid |-> TRUE, error |-> ""]

\* A revocation that releases nothing (the call is given a wrong argument).
revokeObjectURL_ReleasesNothing(live, url) == live

\* URL.revokeObjectURL: revoking an unknown or revoked URL does nothing.
revokeObjectURL(live, url) == live \ {url}

\* URL.createObjectURL hands out a URL that is not live and that is not the
\* one the component still holds (held may already be revoked): the first
\* such name is taken, names of URLs nobody holds any more are used again.
createObjectURL(live, held) ==
    CHOOSE u \in 1..(Cardinality(live) + 2) :
        /\ u \notin live \cup {held}
        /\ \A v \in 1..(u - 1) : v \in live \cup {held}

\* The cleanup of useEffect(..., [preview]): when a render changes preview
\* from old to new, the cleanup created by the previous render runs and
\* revokes the preview that render saw.
effectCleanup(live, old, new) ==
    IF old # new /\ old # Null THEN revokeObjectURL(live, old) ELSE live

\* The variant of the Alert that shows a result (line 258).
alertVariant(result) ==
    IF includes(result.prediction, NoTumorMarker) THEN "default" ELSE "destructive"

\* ------------------------------------------------------- file selection
\* handleFileSelection without the return of line 63.
handleFileSelection_NoReturn(file) ==
    LET revoked == IF preview # Null
                     THEN revokeObjectURL(liveURLs, preview)
                     ELSE liveURLs
        url == createObjectURL(revoked, preview)
    IN  /\ toasts' = IF ~validateFile(file).isValid
                       THEN <<Toast("Invalid File", validateFile(file).error,
                                    "destructive")>>
                       ELSE <<>>
        /\ selectedFile' = file
        /\ preview' = url
        /\ liveURLs' = effectCleanup(revoked \cup {url}, preview, url)
        /\ predictionResult' = <<>>
        /\ UNCHANGED <<uploadStatus, subs>>

handleFileSelection(file) ==
    IF ~validateFile(file).isValid
      THEN /\ toasts' = <<Toast("Invalid File", validateFile(file).error,
                                "destructive")>>
           /\ UNCHANGED <<selectedFile, preview, predictionResult,
                          uploadStatus, liveURLs, subs>>
      ELSE LET revoked == IF preview # Null
                            THEN revokeObjectURL(liveURLs, preview)
                            ELSE liveURLs
               url == createObjectURL(revoked, preview)
           IN  /\ selectedFile' = file
               /\ preview' = url
               /\ liveURLs' = effectCleanup(revoked \cup {url}, preview, url)
               /\ predictionResult' = <<>>
               /\ toasts' = <<>>
               /\ UNCHANGED <<uploadStatus, subs>>

handleDrop ==
    \E file \in Files \cup {Null} :
        /\ handleFileSelection(file)
        /\ lastEvent' = FileEvent(file)

handleFileInputChange ==
    \E file \in Files \cup {Null} :
        IF file # Null
          THEN /\ handleFileSelection(file)
               /\ lastEvent' = FileEvent(file)
          ELSE /\ toasts' = <<>>
               /\ lastEvent' = Event("inputChange", 0)
               /\ UNCHANGED <<selectedFile, preview, predictionResult,
                              uploadStatus, liveURLs, subs>>

\* ---------------------------------------------------------- manual reset
\* resetForm without its last statement (line 97).
resetForm_KeepsStatus ==
    /\ liveURLs' = effectCleanup(IF preview # Null
                                    THEN revokeObjectURL(liveURLs, preview)
                                    ELSE liveURLs,
                                  preview, Null)
    /\ selectedFile' = Null
    /\ preview' = Null
    /\ predictionResult' = <<>>
    /\ UNCHANGED uploadStatus

resetForm ==
    /\ liveURLs' = effectCleanup(IF preview # Null
                                    THEN revokeObjectURL(liveURLs, preview)
                                    ELSE liveURLs,
                                  preview, Null)
    /\ selectedFile' = Null
    /\ preview' = Null
    /\ predictionResult' = <<>>
    /\ uploadStatus' = [isLoading |-> FALSE, progress |-> 0]

\* The reset button is rendered only while a preview is shown.
ResetClick ==
    /\ preview # Null
    /\ resetForm
    /\ toasts' = <<>>
    /\ lastEvent' = Event("reset", 0)
    /\ UNCHANGED subs

\* ------------------------------------------------------------ submission
updateProgress(progress) ==
    uploadStatus' = [uploadStatus EXCEPT !.progress = Min(progress, PROGRESS_CEILING)]

\* The disabled attribute without its isLoading operand.
submitDisabled_NoLoadingGuard == selectedFile = Null

\* disabled={!selectedFile || uploadStatus.isLoading} of the submit button.
submitDisabled == selectedFile = Null \/ uploadStatus.isLoading

\* handleSubmit up to its first await.  The record of a call holds what is
\* still alive of it:
\*   pc        where the call is suspended: "fetch" (line 117), "jsonError"
\*             (line 126), "jsonData" (line 130), "timer" (the timeout of
\*             line 148 is armed), "done";
\*   file      the selectedFile the call captured and sent, while the
\*             exchange with the service lasts, Null afterwards;
\*   interval  the armed setInterval callback, given by the
\*             uploadStatus.progress its closure captured, or Cleared.
handleSubmit ==
    IF selectedFile = Null
      THEN UNCHANGED <<uploadStatus, subs>>
      ELSE /\ uploadStatus' = [isLoading |-> TRUE, progress |-> 0]
           /\ subs' = Append(subs, [pc       |-> "fetch",
                                    file     |-> selectedFile,
                                    interval |-> uploadStatus.progress])

SubmitClick ==
    /\ IF submitDisabled
         THEN UNCHANGED <<uploadStatus, subs>>
         ELSE /\ Len(subs) < MaxSubs
              /\ handleSubmit
    /\ toasts' = <<>>
    /\ lastEvent' = Event("submitClick", 0)
    /\ UNCHANGED <<selectedFile, preview, predictionResult, liveURLs>>

\* The setInterval callback of submission i.
Tick(i) ==
    /\ subs[i].interval # Cleared
    /\ updateProgress(subs[i].interval + PROGRESS_STEP)
    /\ toasts' = <<>>
    /\ lastEvent' = Event("tick", i)
    /\ UNCHANGED <<selectedFile, preview, predictionResult, liveURLs, subs>>

\* A finally block that does not set isLoading back to false.
catchFinally_KeepsLoading(i, errorMessage) ==
    /\ toasts' = <<Toast("Analysis Failed", errorMessage, "destructive")>>
    /\ predictionResult' = <<>>
    /\ UNCHANGED uploadStatus
    /\ subs' = [subs EXCEPT ![i].pc = "timer", ![i].file = Null]

\* A catch block that clears the result without notifying.
catchFinally_NoToast(i, errorMessage) ==
    /\ toasts' = <<>>
    /\ predictionResult' = <<>>
    /\ uploadStatus' = [uploadStatus EXCEPT !.isLoading = FALSE]
    /\ subs' = [subs EXCEPT ![i].pc = "timer", ![i].file = Null]

\* catch block followed by finally block.
catchFinally(i, errorMessage) ==
    /\ toasts' = <<Toast("Analysis Failed", errorMessage, "destructive")>>
    /\ predictionResult' = <<>>
    /\ uploadStatus' = [uploadStatus EXCEPT !.isLoading = FALSE]
    /\ subs' = [subs EXCEPT ![i].pc = "timer", ![i].file = Null]

\* fetch resolves with a response (any HTTP status).
FetchResolve(i) ==
    \E ok \in BOOLEAN :
        /\ subs[i].pc = "fetch"
        /\ subs' = [subs EXCEPT ![i].interval = Cleared,
                                ![i].pc = IF ok THEN "jsonData" ELSE "jsonError"]
        /\ uploadStatus' = [uploadStatus EXCEPT !.progress = PROGRESS_COMPLETE]
        /\ toasts' = <<>>
        /\ lastEvent' = Event("fetchResolve", i)
        /\ UNCHANGED <<selectedFile, preview, predictionResult, liveURLs>>

\* fetch rejects: control goes straight to catch.
FetchReject(i) ==
    /\ subs[i].pc = "fetch"
    /\ catchFinally(i, "Failed to fetch")
    /\ lastEvent' = Event("fetchReject", i)
    /\ UNCHANGED <<selectedFile, preview, liveURLs>>

\* response.json() of a non-success response resolves: the error is thrown.
JsonResolveError(i) ==
    \E message \in ErrorMessages :
        /\ subs[i].pc = "jsonError"
        /\ catchFinally(i, IF message # "" THEN message ELSE "Analysis failed")
        /\ lastEvent' = Event("jsonError", i)
        /\ UNCHANGED <<selectedFile, preview, liveURLs>>

\* response.json() of a success response resolves with the payload.
JsonResolveData(i) ==
    \E data \in Payloads(subs[i].file) :
        /\ subs[i].pc = "jsonData"
        /\ predictionResult' = <<data>>
        /\ toasts' = <<Toast("Analysis Complete", data.message,
                             IF data.success THEN "default" ELSE "destructive")>>
        /\ uploadStatus' = [uploadStatus EXCEPT !.isLoading = FALSE]
        /\ subs' = [subs EXCEPT ![i].pc = "timer", ![i].file = Null]
        /\ lastEvent' = Event("jsonData", i)
        /\ UNCHANGED <<selectedFile, preview, liveURLs>>

\* response.json() rejects (the body cannot be parsed).
JsonReject(i) ==
    /\ subs[i].pc \in {"jsonData", "jsonError"}
    /\ catchFinally(i, "Unexpected end of JSON input")
    /\ lastEvent' = Event("jsonReject", i)
    /\ UNCHANGED <<selectedFile, preview, liveURLs>>

\* The timeout callback replacing the whole status instead of spreading prev.
TimerFire_ReplacesStatus(i) ==
    /\ subs[i].pc = "timer"
    /\ uploadStatus' = [isLoading |-> FALSE, progress |-> 0]
    /\ subs' = [subs EXCEPT ![i].pc = "done"]
    /\ toasts' = <<>>
    /\ lastEvent' = Event("timer", i)
    /\ UNCHANGED <<selectedFile, preview, predictionResult, liveURLs>>

\* The setTimeout callback armed in finally.
TimerFire(i) ==
    /\ subs[i].pc = "timer"
    /\ uploadStatus' = [uploadStatus EXCEPT !.progress = 0]
    /\ subs' = [subs EXCEPT ![i].pc = "done"]
    /\ toasts' = <<>>
    /\ lastEvent' = Event("timer", i)
    /\ UNCHANGED <<selectedFile, preview, predictionResult, liveURLs>>

Next ==
    \/ handleDrop
    \/ handleFileInputChange
    \/ ResetClick
    \/ SubmitClick
    \/ \E i \in 1..Len(subs) : Tick(i)
    \/ \E i \in 1..Len(subs) : FetchResolve(i)
    \/ \E i \in 1..Len(subs) : FetchReject(i)
    \/ \E i \in 1..Len(subs) : JsonResolveError(i)
    \/ \E i \in 1..Len(subs) : JsonResolveData(i)
    \/ \E i \in 1..Len(subs) : JsonReject(i)
    \/ \E i \in 1..Len(subs) : TimerFire(i)

Spec == Init /\ [][Next]_vars

\* ---------------------------------------------------------------- fairness
\* The exchange of submission i ends: its fetch resolves or rejects, and the
\* reading of the body resolves or rejects.
ExchangeStep(i) ==
    /\ i \in 1..Len(subs)
    /\ \/ FetchResolve(i)
       \/ FetchReject(i)
       \/ JsonResolveError(i)
       \/ JsonResolveData(i)
       \/ JsonReject(i)

\* The component under the assumption that every network exchange
\* eventually resolves or rejects.
FairSpec == Spec /\ \A i \in 1..MaxSubs : WF_vars(ExchangeStep(i))

\* ---------------------------------------------------------------- teardown
\* The effect without the cleanup it returns.
Unmount_NoCleanup ==
    /\ lastEvent.op # "unmount"
    /\ lastEvent' = Event("unmount", 0)
    /\ toasts' = <<>>
    /\ UNCHANGED <<selectedFile, preview, predictionResult, uploadStatus,
                   liveURLs, subs>>

\* The component is unmounted: the cleanup of the last render's effect runs.
Unmount ==
    /\ lastEvent.op # "unmount"
    /\ liveURLs' = IF preview # Null THEN revokeObjectURL(liveURLs, preview)
                                     ELSE liveURLs
    /\ lastEvent' = Event("unmount", 0)
    /\ toasts' = <<>>
    /\ UNCHANGED <<selectedFile, preview, predictionResult, uploadStatus, subs>>

\* The life of the component up to and including its teardown.  Nothing is
\* modelled after it: no handler can run any more, and the continuations of
\* pending handleSubmit calls neither create nor revoke object URLs.
NextTeardown ==
    \/ lastEvent.op # "unmount" /\ Next
    \/ Unmount

SpecTeardown == Init /\ [][NextTeardown]_vars

\* ================================================================ claims
Subs == 1..Len(subs)

InFlight(i) == subs[i].pc = "fetch"

\* The step takes submission i to the end of handleSubmit (finally has run).
Terminates(i) == subs[i].pc \in {"fetch", "jsonError", "jsonData"} /\ subs'[i].pc = "timer"

\* The step is a submit click that handleSubmit accepted.
SubmitAccepted == lastEvent'.op = "submitClick" /\ Len(subs') = Len(subs) + 1

\* C1: at most one fetch to the prediction endpoint is outstanding in every
\* reachable state.
C1_AtMostOneExchange ==
    Cardinality({i \in Subs : InFlight(i)}) <= 1

\* C2: the interval of a submission is cancelled when its exchange ends, so
\* no tick of a submission changes progress once that submission has left
\* its fetch (resolved with any status, or rejected).
C2_NoTickAfterResolution ==
    [][\A i \in Subs :
          (lastEvent' = Event("tick", i) /\ uploadStatus' # uploadStatus)
              => InFlight(i)]_vars

\* C3: a tick of a submission in flight sets progress to
\* min(previous progress + 5, 90).
C3_TickAddsFive ==
    [][\A i \in Subs :
          (lastEvent' = Event("tick", i) /\ InFlight(i))
              => uploadStatus'.progress = Min(uploadStatus.progress + 5, 90)]_vars

\* C4: while some exchange is started and unresolved progress is at most 90,
\* and progress is 100 only when the response of the latest submission has
\* arrived.
C4_NoCompletionBeforeResponse ==
    /\ (\E i \in Subs : InFlight(i)) => uploadStatus.progress <= 90
    /\ uploadStatus.progress = 100 => (subs # <<>> /\ ~InFlight(Len(subs)))

\* C5: on every failed outcome (fetch rejects, non-success status, body that
\* cannot be read, payload with success = false) progress is 100 when the
\* submission reaches its terminal state.
C5_FailureForcesCompletion ==
    [][\A i \in Subs :
          (/\ Terminates(i)
           /\ \/ lastEvent'.op \in {"fetchReject", "jsonError", "jsonReject"}
              \/ (predictionResult' # <<>> /\ ~predictionResult'[1].success))
              => uploadStatus'.progress = 100]_vars

\* C6: when a submission terminates, PredictionResult is non-null only if the
\* exchange ended with a success status and a payload with success = true.
C6_ResultOnlyOnSuccess ==
    [][\A i \in Subs :
          (Terminates(i) /\ predictionResult' # <<>>)
              => (lastEvent' = Event("jsonData", i) /\ predictionResult'[1].success)]_vars

\* C7: an accepted submit leaves progress 0 and PredictionResult null.
C7_SubmitClearsResult ==
    [][SubmitAccepted
          => (uploadStatus'.progress = 0 /\ predictionResult' = <<>>)]_vars

\* C8: a manual reset yields, in the same step, a released and null preview,
\* no selected file, no result, isLoading false and progress 0.
C8_ManualResetClearsAll ==
    [][lastEvent'.op = "reset"
          => /\ preview \notin liveURLs'
             /\ preview' = Null
             /\ selectedFile' = Null
             /\ predictionResult' = <<>>
             /\ uploadStatus' = [isLoading |-> FALSE, progress |-> 0]]_vars

\* A reset taken while a submission is in flight and after a tick.
C8_Witness ==
    /\ lastEvent.op = "reset"
    /\ \E i \in Subs : InFlight(i)
    /\ uploadStatus = [isLoading |-> FALSE, progress |-> 0]
    /\ selectedFile = Null /\ preview = Null /\ liveURLs = {}

\* C9: the delayed reset sets progress to 0 and leaves SelectedFile, the
\* preview handle, PredictionResult and isLoading unchanged.
C9_DelayedResetOnlyProgress ==
    [][lastEvent'.op = "timer"
          => /\ uploadStatus'.progress = 0
             /\ uploadStatus'.isLoading = uploadStatus.isLoading
             /\ UNCHANGED <<selectedFile, preview, predictionResult, liveURLs>>]_vars

\* The timer of a finished submission fired while the next one is loading
\* and while a file, its preview and a result are shown.
C9_Witness ==
    /\ lastEvent.op = "timer"
    /\ uploadStatus = [isLoading |-> TRUE, progress |-> 0]
    /\ selectedFile # Null /\ preview \in liveURLs
    /\ predictionResult # <<>>

\* C10: a submit click while isLoading is true changes nothing: no request,
\* no interval, progress and PredictionResult as they were.
C10_SubmitWhileLoadingIgnored ==
    [][(lastEvent'.op = "submitClick" /\ uploadStatus.isLoading)
          => UNCHANGED <<selectedFile, preview, predictionResult,
                         uploadStatus, liveURLs, subs>>]_vars

\* A click on the submit button after a tick of the submission in flight
\* (an accepted click would have left progress 0).
C10_Witness ==
    /\ lastEvent.op = "submitClick"
    /\ uploadStatus.isLoading
    /\ uploadStatus.progress > 0
    /\ \E i \in Subs : InFlight(i)

\* C11: after any sequence of selections and resets at most one object URL
\* is created and not yet revoked, and it is the preview the component
\* holds; revocations of revoked or absent URLs (the effect cleanup repeats
\* the handler's revocation) go through.
C11_AtMostOneLiveURL ==
    /\ Cardinality(liveURLs) <= 1
    /\ liveURLs \subseteq {preview}

\* A valid selection replaced an earlier valid selection.
C11_Witness ==
    /\ lastEvent.op = "select"
    /\ preview = 2
    /\ liveURLs = {2}

\* C12: after teardown no object URL is live.
C12_NoLiveURLAfterTeardown ==
    lastEvent.op = "unmount" => liveURLs = {}

\* The component was unmounted while it held a preview and a submission was
\* in flight.
C12_Witness ==
    /\ lastEvent.op = "unmount"
    /\ preview # Null
    /\ \E i \in Subs : InFlight(i)
    /\ liveURLs = {}

\* Acceptance as the specification words it: the file is present, its
\* declared type is on the allow-list and its size is at most 5242880.
ClaimAccepts(f) ==
    /\ f # Null
    /\ FileType(f) \in {"image/jpeg", "image/png", "image/gif"}
    /\ FileSize(f) <= 5242880

\* The reason the specification gives a rejection: missing file first, then
\* unsupported type, then too large.
ClaimReason(f) ==
    IF f = Null THEN "Please select a file"
    ELSE IF FileType(f) \notin {"image/jpeg", "image/png", "image/gif"}
      THEN "Please upload a valid image file (JPEG, PNG, or GIF)"
    ELSE "File size must be less than 5MB"

\* C13: a selection that validation rejects starts no exchange and leaves
\* SelectedFile, the preview, PredictionResult, isLoading and progress as
\* they were; it raises one destructive notification and nothing else.
C13_RejectedSelectionChangesNothing ==
    [][(lastEvent'.op = "select" /\ ~ClaimAccepts(lastEvent'.file))
          => /\ UNCHANGED <<selectedFile, preview, predictionResult,
                            uploadStatus, liveURLs, subs>>
             /\ Len(toasts') = 1
             /\ toasts'[1].variant = "destructive"]_vars

\* An oversized file was rejected while a file was selected, a result was
\* shown and a later submission was in flight.
C13_Witness ==
    /\ lastEvent = FileEvent(3)
    /\ selectedFile = 1
    /\ predictionResult # <<>>
    /\ \E i \in Subs : InFlight(i)
    /\ Len(toasts) = 1

\* C14: validateFile accepts exactly the present files of an allowed type
\* and of at most 5242880 bytes, and a rejected file is given the first
\* reason that applies: missing, unsupported type, too large.
C14_ValidateFile ==
    [][lastEvent'.op = "select"
          => IF ClaimAccepts(lastEvent'.file)
               THEN selectedFile' = lastEvent'.file /\ toasts' = <<>>
               ELSE /\ Len(toasts') = 1
                    /\ toasts'[1].description = ClaimReason(lastEvent'.file)]_vars

\* A file of a wrong type that is also too large was rejected for its type.
C14_Witness ==
    /\ lastEvent = FileEvent(5)
    /\ FileType(5) = "image/bmp" /\ FileSize(5) = 5242881
    /\ Len(toasts) = 1
    /\ toasts[1].description = "Please upload a valid image file (JPEG, PNG, or GIF)"

\* C15: the step that ends a submission raises exactly one notification on
\* every path, the other steps of a submission raise none, and a rejected
\* selection raises exactly one.
C15_OneNotification ==
    [][/\ \A i \in Subs : Terminates(i) => Len(toasts') = 1
       /\ lastEvent'.op \in {"tick", "fetchResolve", "timer"} => toasts' = <<>>
       /\ (lastEvent'.op = "select" /\ ~ClaimAccepts(lastEvent'.file))
             => Len(toasts') = 1]_vars

\* The body of a response could not be read: one notification was raised.
C15_Witness ==
    /\ lastEvent.op = "jsonReject"
    /\ Len(toasts) = 1
    /\ toasts[1].title = "Analysis Failed"

\* C16: for every result, the framing of the Alert and the variant of the
\* completion notification are both "default" exactly when the label
\* contains "No tumor", whatever the success field says.
C16_FramingByMarker ==
    (lastEvent.op = "jsonData" /\ predictionResult # <<>>)
        => LET benign == includes(predictionResult[1].prediction, NoTumorMarker)
           IN  /\ alertVariant(predictionResult[1]) = "default" <=> benign
               /\ toasts[1].variant = "default" <=> benign

\* The step is a callback or a continuation of a handleSubmit call, not an
\* action of the user.
ContinuationStep ==
    lastEvent'.op \in {"tick", "fetchResolve", "fetchReject", "jsonError",
                       "jsonData", "jsonReject", "timer"}

\* C18: a result that is shown was produced for the file that is selected.
C18_ResultBelongsToSelection ==
    predictionResult # <<>> => predictionResult[1].of = selectedFile

\* The state a manual reset leaves.
FullyCleared ==
    /\ selectedFile = Null
    /\ predictionResult = <<>>
    /\ uploadStatus = [isLoading |-> FALSE, progress |-> 0]

\* C19: once cleared by a reset the state stays cleared under every late
\* resolution, tick and timer of the submissions made before the reset.
C19_ResetStaysCleared ==
    [][(FullyCleared /\ ContinuationStep) => FullyCleared']_vars

\* C20: while the newest submission is in flight its progress is moved only
\* by its own ticks, by at most 5 a tick, and never down: the timer of an
\* earlier submission leaves it alone, and so does the progress that was
\* shown when the submission started.
C20_ProgressOwnedBySubmission ==
    [][(subs # <<>> /\ InFlight(Len(subs)) /\ ContinuationStep
          /\ subs'[Len(subs)].pc = "fetch")
          => /\ uploadStatus'.progress >= uploadStatus.progress
             /\ lastEvent'.op = "timer" => uploadStatus'.progress = uploadStatus.progress
             /\ lastEvent' = Event("tick", Len(subs))
                   => uploadStatus'.progress <= uploadStatus.progress + 5]_vars

\* The exchange of submission i is under way.
Pending(i) == i \in Subs /\ subs[i].pc \in {"fetch", "jsonError", "jsonData"}

\* handleSubmit call i has run its finally block.
Ended(i) == i \in Subs /\ subs[i].pc \in {"timer", "done"}

\* How far handleSubmit call i has come.
Rank(pc) ==
    CASE pc = "fetch" -> 0
      [] pc \in {"jsonError", "jsonData"} -> 1
      [] pc = "timer" -> 2
      [] OTHER -> 3

\* The step is the resolution or rejection of an await of call i.
ExchangeStepOf(i) ==
    lastEvent' \in {Event(op, i) : op \in {"fetchResolve", "fetchReject",
                                            "jsonError", "jsonData", "jsonReject"}}

\* C17: every started submission ends on every path once its exchange
\* resolves or rejects: while a call is pending a resolution of its await
\* is possible, every such resolution takes the call nearer to its finally
\* block (reached after at most two of them) and no step takes it back; the
\* step that ends it sets isLoading to false, no step of a submission
\* changes the selected file, and so the submit button is enabled again for
\* the file still selected.
C17_SubmissionEndsRecoverable ==
    [][/\ \A i \in Subs : Pending(i) => ENABLED ExchangeStep(i)
       /\ \A i \in Subs : Rank(subs'[i].pc) >= Rank(subs[i].pc)
       /\ \A i \in Subs : ExchangeStepOf(i) => Rank(subs'[i].pc) > Rank(subs[i].pc)
       /\ ContinuationStep => selectedFile' = selectedFile
       /\ \A i \in Subs :
             Terminates(i)
                 => /\ ~uploadStatus'.isLoading
                    /\ selectedFile' # Null => ~submitDisabled']_vars

\* The same termination as a liveness property of FairSpec: a pending call
\* leads to an ended call.
C17_EventuallyEnds ==
    \A i \in 1..MaxSubs : Pending(i) ~> Ended(i)

\* A submission ended by a transport failure with its file still selected
\* and the submit button enabled.
C17_Witness ==
    /\ lastEvent.op = "fetchReject"
    /\ Ended(lastEvent.sub)
    /\ selectedFile # Null
    /\ ~uploadStatus.isLoading
    /\ ~submitDisabled

====
